---- MODULE Spec2Model ----
(***************************************************************************)
(* A state-machine model of sortcomparer (src/sortcomparer.cc): the CLI    *)
(* driver main, the dataset reader read_in_datasets, the benchmark loop,   *)
(* the two report renderers and the seven sort functions.                  *)
(*                                                                         *)
(* C indices are kept 0-based as in the source; At(s, k) reads s[k] of the *)
(* source.  A call stack of frames models the sort functions and their     *)
(* recursive helpers; the top of the stack is the last element.            *)
(***************************************************************************)
EXTENDS Integers, Sequences, FiniteSets, TLC

VARIABLES
    argv,            \* main's argv, program name first (argc = Len(argv))
    pc,              \* position of main
    status,          \* value returned by main, as the process exit status
    out,             \* lines written to std::cout
    err,             \* lines written to std::cerr
    stdin,           \* the whole text on standard input (sequence of characters)
    cin_pos,         \* number of characters of stdin already consumed
    cin_eof,         \* std::cin.eof()
    data_str,        \* read_in_datasets: data_str
    linecount,       \* read_in_datasets: linecount
    errors_occured,  \* read_in_datasets: errors_occured
    datasets,        \* main: datasets
    total_times,     \* main: total_times (function on the names inserted so far)
    result_times,    \* main: result_times (function on the names inserted so far)
    i,               \* main: index of the dataset of the benchmark loop
    iter,            \* main: position of the iterator over sort_algos
    clock,           \* the reading of Clock::now(), in microseconds
    durations,       \* every value main's local `duration` has taken, in order
    v,               \* the sort function's own vector (its by-value parameter)
    stack,           \* call stack of the running sort function
    oob              \* an element outside a vector's bounds has been accessed

mainVars   == <<argv, status, out, err, total_times, result_times, i, iter,
                clock, durations>>
readerVars == <<stdin, cin_pos, cin_eof, data_str, linecount, errors_occured>>
sortVars   == <<v, stack, oob>>
vars       == <<pc, datasets, mainVars, readerVars, sortVars>>

(***************************************************************************)
(* Bounds of the model.                                                    *)
(***************************************************************************)
MaxLen      == 4    \* longest vector handed to a sort function on its own
MaxVal      == 1    \* elements of those vectors range over -1 .. MaxVal
MaxClock    == 3    \* microseconds the clock advances over one run, at most
MaxTokens   == 2    \* tokens per input line of the reader's inputs
MaxLines    == 2    \* lines per input text of the reader's inputs

(***************************************************************************)
(* Vectors.                                                                *)
(***************************************************************************)
At(s, k)       == s[k + 1]
InBounds(s, k) == k >= 0 /\ k < Len(s)
swap(s, a, b)  == [s EXCEPT ![a + 1] = s[b + 1], ![b + 1] = s[a + 1]]
Put(s, k, x)   == [s EXCEPT ![k + 1] = x]

\* v.size() - 1 converted to int: 0 - 1 wraps to the largest size_t, whose
\* conversion to a 32-bit int is -1.
SizeMinusOne(s) == Len(s) - 1

(***************************************************************************)
(* The registered algorithms (main, lines 48-55).                          *)
(***************************************************************************)
Registered ==
    <<"Insertion Sort", "Selection Sort", "Bubble Sort", "Heap Sort",
      "Merge Sort", "Quick Sort", "Shell Sort">>

AlgoNames == {Registered[k] : k \in 1..Len(Registered)}

\* The order in which an unordered_map hands out its entries is fixed by the
\* hash of the keys and the bucket count, not by the order of insertion.  For
\* these seven names the library of the build iterates sort_algos (78) in the
\* first order below, and total_times (110) and result_times (143) in the
\* second.
sort_order ==
    <<"Shell Sort", "Quick Sort", "Merge Sort", "Bubble Sort", "Heap Sort",
      "Selection Sort", "Insertion Sort">>

total_order ==
    <<"Insertion Sort", "Selection Sort", "Heap Sort", "Bubble Sort",
      "Merge Sort", "Quick Sort", "Shell Sort">>

result_order ==
    <<"Insertion Sort", "Selection Sort", "Heap Sort", "Bubble Sort",
      "Merge Sort", "Quick Sort", "Shell Sort">>

sort_algos(name) ==
    CASE name = "Insertion Sort" -> "insertion_sort"
      [] name = "Selection Sort" -> "selection_sort"
      [] name = "Bubble Sort"    -> "bubble_sort"
      [] name = "Heap Sort"      -> "heap_sort"
      [] name = "Merge Sort"     -> "merge_sort"
      [] name = "Quick Sort"     -> "quick_sort"
      [] name = "Shell Sort"     -> "shell_sort"

num_algos == Cardinality(AlgoNames)

(***************************************************************************)
(* The call stack.                                                         *)
(***************************************************************************)
Top            == stack[Len(stack)]
Pop            == SubSeq(stack, 1, Len(stack) - 1)
ReplaceTop(f)  == [stack EXCEPT ![Len(stack)] = f]
Call(caller, callee) == Append(ReplaceTop(caller), callee)

Running(fn, at) ==
    /\ pc = "sorting"
    /\ stack # <<>>
    /\ Top.fn = fn
    /\ Top.pc = at

\* The outcome of one step of a sort function: the vector and the stack after
\* it, or a fault when the step indexes outside the vector.
Ok(vec, stk) == [v |-> vec, stack |-> stk, oob |-> FALSE]
Fault        == [v |-> v, stack |-> stack, oob |-> TRUE]

\* An out-of-bounds access is undefined behaviour; the run is stopped at "ub"
\* with oob set, which stands for every outcome the build can produce.
Step(r) ==
    /\ v' = r.v
    /\ stack' = r.stack
    /\ oob' = (oob \/ r.oob)
    /\ pc' = IF r.oob THEN "ub" ELSE pc
    /\ UNCHANGED <<datasets, mainVars, readerVars>>

\* The frame a sort function starts in, once its parameter v holds the copy.
\* merge_sort and quick_sort only forward to their _sublist helper.
Entry(fn, vec) ==
    CASE fn = "insertion_sort" -> [fn |-> fn, pc |-> "outer", i |-> 1, j |-> 0]
      [] fn = "selection_sort" -> [fn |-> fn, pc |-> "outer", i |-> 0, j |-> 0, min |-> 0]
      [] fn = "bubble_sort"    -> [fn |-> fn, pc |-> "while", i |-> 0, swapped |-> TRUE]
      [] fn = "heap_sort"      -> [fn |-> fn, pc |-> "build", i |-> (Len(vec) \div 2) - 1]
      [] fn = "merge_sort"     -> [fn |-> fn, pc |-> "call"]
      [] fn = "quick_sort"     -> [fn |-> fn, pc |-> "call"]
      [] fn = "shell_sort"     -> [fn |-> fn, pc |-> "gap", i |-> 0, j |-> 0,
                                   gap |-> Len(vec) \div 2]

(***************************************************************************)
(* insertion_sort (228-242).                                               *)
(***************************************************************************)
insertion_sort_outer ==
    /\ Running("insertion_sort", "outer")
    /\ LET f == Top IN
       Step(IF f.i < Len(v)
              THEN Ok(v, ReplaceTop([f EXCEPT !.j = f.i, !.pc = "inner"]))
              ELSE Ok(v, Pop))

insertion_sort_inner ==
    /\ Running("insertion_sort", "inner")
    /\ LET f == Top
           next == ReplaceTop([f EXCEPT !.i = f.i + 1, !.pc = "outer"])
       IN Step(IF f.j > 0
                 THEN IF ~(InBounds(v, f.j - 1) /\ InBounds(v, f.j)) THEN Fault
                      ELSE IF At(v, f.j - 1) > At(v, f.j)
                             THEN Ok(swap(v, f.j, f.j - 1),
                                     ReplaceTop([f EXCEPT !.j = f.j - 1]))
                             ELSE Ok(v, next)
                 ELSE Ok(v, next))

(***************************************************************************)
(* selection_sort (247-264).                                               *)
(***************************************************************************)
selection_sort_outer ==
    /\ Running("selection_sort", "outer")
    /\ LET f == Top IN
       Step(IF f.i < Len(v) - 1
              THEN Ok(v, ReplaceTop([f EXCEPT !.min = f.i, !.j = f.i + 1, !.pc = "scan"]))
              ELSE Ok(v, Pop))

selection_sort_scan ==
    /\ Running("selection_sort", "scan")
    /\ LET f == Top IN
       Step(IF f.j < Len(v)
              THEN IF ~(InBounds(v, f.j) /\ InBounds(v, f.min)) THEN Fault
                   ELSE Ok(v, ReplaceTop([f EXCEPT
                              !.min = IF At(v, f.j) < At(v, f.min) THEN f.j ELSE f.min,
                              !.j = f.j + 1]))
              ELSE IF f.min # f.i
                     THEN IF ~(InBounds(v, f.i) /\ InBounds(v, f.min)) THEN Fault
                          ELSE Ok(swap(v, f.i, f.min),
                                  ReplaceTop([f EXCEPT !.i = f.i + 1, !.pc = "outer"]))
                     ELSE Ok(v, ReplaceTop([f EXCEPT !.i = f.i + 1, !.pc = "outer"])))

(***************************************************************************)
(* bubble_sort (269-288).                                                  *)
(***************************************************************************)
bubble_sort_while_keeps_flag ==
    /\ Running("bubble_sort", "while")
    /\ LET f == Top IN
       Step(IF f.swapped
              THEN Ok(v, ReplaceTop([f EXCEPT !.i = 1, !.pc = "for"]))
              ELSE Ok(v, Pop))

bubble_sort_while ==
    /\ Running("bubble_sort", "while")
    /\ LET f == Top IN
       Step(IF f.swapped
              THEN Ok(v, ReplaceTop([f EXCEPT !.swapped = FALSE, !.i = 1, !.pc = "for"]))
              ELSE Ok(v, Pop))

bubble_sort_for ==
    /\ Running("bubble_sort", "for")
    /\ LET f == Top IN
       Step(IF f.i < Len(v)
              THEN IF ~(InBounds(v, f.i - 1) /\ InBounds(v, f.i)) THEN Fault
                   ELSE IF At(v, f.i - 1) > At(v, f.i)
                          THEN Ok(swap(v, f.i - 1, f.i),
                                  ReplaceTop([f EXCEPT !.swapped = TRUE, !.i = f.i + 1]))
                          ELSE Ok(v, ReplaceTop([f EXCEPT !.i = f.i + 1]))
              ELSE Ok(v, ReplaceTop([f EXCEPT !.pc = "while"])))

(***************************************************************************)
(* heap_sort (293-307) and max_heapify (314-336).  A caller's frame is     *)
(* left at the point it resumes from, since a callee never reads it.       *)
(***************************************************************************)
heapify_frame(n, k) == [fn |-> "max_heapify", pc |-> "entry", n |-> n, i |-> k]

heap_sort_build ==
    /\ Running("heap_sort", "build")
    /\ LET f == Top IN
       Step(IF f.i >= 0
              THEN Ok(v, Call([f EXCEPT !.i = f.i - 1], heapify_frame(Len(v), f.i)))
              ELSE Ok(v, ReplaceTop([f EXCEPT !.i = Len(v) - 1, !.pc = "extract"])))

heap_sort_extract ==
    /\ Running("heap_sort", "extract")
    /\ LET f == Top IN
       Step(IF f.i >= 0
              THEN IF ~(InBounds(v, 0) /\ InBounds(v, f.i)) THEN Fault
                   ELSE Ok(swap(v, 0, f.i),
                           Call([f EXCEPT !.i = f.i - 1], heapify_frame(f.i, 0)))
              ELSE Ok(v, Pop))

\* Lines 320-327: the index of the largest of v[i] and its children below n;
\* -1 when one of the reads falls outside the vector.
largest_ignoring_right(vec, n, k) ==
    LET left == 2 * k + 1
    IN  IF left < n /\ ~(InBounds(vec, left) /\ InBounds(vec, k)) THEN -1
        ELSE IF left < n /\ At(vec, left) > At(vec, k) THEN left ELSE k

largest(vec, n, k) ==
    LET left  == 2 * k + 1
        right == 2 * k + 2
    IN  IF left < n /\ ~(InBounds(vec, left) /\ InBounds(vec, k)) THEN -1
        ELSE LET l1 == IF left < n /\ At(vec, left) > At(vec, k) THEN left ELSE k
             IN  IF right < n /\ ~(InBounds(vec, right) /\ InBounds(vec, l1)) THEN -1
                 ELSE IF right < n /\ At(vec, right) > At(vec, l1) THEN right ELSE l1

max_heapify ==
    /\ Running("max_heapify", "entry")
    /\ LET f == Top
           l == largest(v, f.n, f.i)
       IN Step(IF l = -1 THEN Fault
               ELSE IF l # f.i
                      THEN IF ~(InBounds(v, f.i) /\ InBounds(v, l)) THEN Fault
                           ELSE Ok(swap(v, f.i, l),
                                   Call([f EXCEPT !.pc = "exit"], heapify_frame(f.n, l)))
                      ELSE Ok(v, Pop))

\* A function whose last call has returned returns itself.
return_from_call ==
    /\ pc = "sorting"
    /\ stack # <<>>
    /\ Top.pc = "exit"
    /\ Step(Ok(v, Pop))

(***************************************************************************)
(* merge_sort (341-344), merge_sort_sublist (350-360) and merge_sublists   *)
(* (367-409).                                                              *)
(***************************************************************************)
sublist_frame(fn, start, end) ==
    [fn |-> fn, pc |-> "entry", start |-> start, end |-> end, middle |-> 0]

merge_sort ==
    /\ Running("merge_sort", "call")
    /\ Step(Ok(v, Call([Top EXCEPT !.pc = "exit"],
                       sublist_frame("merge_sort_sublist", 0, SizeMinusOne(v)))))

merge_sort_sublist ==
    /\ Running("merge_sort_sublist", "entry")
    /\ LET f == Top
           middle == f.start + ((f.end - f.start) \div 2)
       IN Step(IF f.start < f.end
                 THEN Ok(v, Call([f EXCEPT !.middle = middle, !.pc = "right"],
                                 sublist_frame("merge_sort_sublist", f.start, middle)))
                 ELSE Ok(v, Pop))

merge_sort_sublist_right ==
    /\ Running("merge_sort_sublist", "right")
    /\ LET f == Top IN
       Step(Ok(v, Call([f EXCEPT !.pc = "merge"],
                       sublist_frame("merge_sort_sublist", f.middle + 1, f.end))))

\* Lines 375-390: the two auxiliary arrays are filled from v[start..end].
merge_sort_sublist_merge ==
    /\ Running("merge_sort_sublist", "merge")
    /\ LET f  == Top
           n1 == f.middle - f.start + 1
           n2 == f.end - f.middle
       IN Step(IF \/ \E a \in 0..(n1 - 1) : ~InBounds(v, f.start + a)
                  \/ \E b \in 0..(n2 - 1) : ~InBounds(v, f.middle + 1 + b)
                 THEN Fault
                 ELSE Ok(v, Call([f EXCEPT !.pc = "exit"],
                        [fn |-> "merge_sublists", pc |-> "merge",
                         n1 |-> n1, n2 |-> n2,
                         left_sublist  |-> [a \in 1..n1 |-> At(v, f.start + a - 1)],
                         right_sublist |-> [b \in 1..n2 |-> At(v, f.middle + b)],
                         i |-> 0, j |-> 0, k |-> f.start])))

\* Lines 394-399.
merge_sublists_merge ==
    /\ Running("merge_sublists", "merge")
    /\ LET f == Top IN
       Step(IF f.i < f.n1 /\ f.j < f.n2
              THEN IF ~InBounds(v, f.k) THEN Fault
                   ELSE IF At(f.left_sublist, f.i) <= At(f.right_sublist, f.j)
                          THEN Ok(Put(v, f.k, At(f.left_sublist, f.i)),
                                  ReplaceTop([f EXCEPT !.k = f.k + 1, !.i = f.i + 1]))
                          ELSE Ok(Put(v, f.k, At(f.right_sublist, f.j)),
                                  ReplaceTop([f EXCEPT !.k = f.k + 1, !.j = f.j + 1]))
              ELSE Ok(v, ReplaceTop([f EXCEPT !.pc = "left"])))

\* Lines 403-404.
merge_sublists_left ==
    /\ Running("merge_sublists", "left")
    /\ LET f == Top IN
       Step(IF f.i < f.n1
              THEN IF ~InBounds(v, f.k) THEN Fault
                   ELSE Ok(Put(v, f.k, At(f.left_sublist, f.i)),
                           ReplaceTop([f EXCEPT !.k = f.k + 1, !.i = f.i + 1]))
              ELSE Ok(v, ReplaceTop([f EXCEPT !.pc = "right"])))

\* Lines 407-408.
merge_sublists_right ==
    /\ Running("merge_sublists", "right")
    /\ LET f == Top IN
       Step(IF f.j < f.n2
              THEN IF ~InBounds(v, f.k) THEN Fault
                   ELSE Ok(Put(v, f.k, At(f.right_sublist, f.j)),
                           ReplaceTop([f EXCEPT !.k = f.k + 1, !.j = f.j + 1]))
              ELSE Ok(v, Pop))

(***************************************************************************)
(* quick_sort (414-417), quick_sort_sublist (423-432) and                  *)
(* partition_sublist (441-454).                                            *)
(***************************************************************************)
quick_sort ==
    /\ Running("quick_sort", "call")
    /\ Step(Ok(v, Call([Top EXCEPT !.pc = "exit"],
                       sublist_frame("quick_sort_sublist", 0, SizeMinusOne(v)))))

quick_sort_sublist ==
    /\ Running("quick_sort_sublist", "entry")
    /\ LET f == Top IN
       Step(IF f.start < f.end
              THEN Ok(v, Call([f EXCEPT !.pc = "partitioned"],
                        [fn |-> "partition_sublist", pc |-> "scan",
                         start |-> f.start, end |-> f.end,
                         i |-> f.start - 1, j |-> f.start]))
              ELSE Ok(v, Pop))

\* Lines 448-453; the returned i becomes the caller's middle.
partition_sublist ==
    /\ Running("partition_sublist", "scan")
    /\ LET f == Top
           caller == stack[Len(stack) - 1]
       IN Step(IF f.j < f.end
                 THEN IF ~(InBounds(v, f.j) /\ InBounds(v, f.end)) THEN Fault
                      ELSE IF At(v, f.j) <= At(v, f.end)
                             THEN IF ~InBounds(v, f.i + 1) THEN Fault
                                  ELSE Ok(swap(v, f.i + 1, f.j),
                                          ReplaceTop([f EXCEPT !.i = f.i + 1, !.j = f.j + 1]))
                             ELSE Ok(v, ReplaceTop([f EXCEPT !.j = f.j + 1]))
                 ELSE IF ~(InBounds(v, f.i + 1) /\ InBounds(v, f.end)) THEN Fault
                      ELSE Ok(swap(v, f.i + 1, f.end),
                              [Pop EXCEPT ![Len(stack) - 1] =
                                  [caller EXCEPT !.middle = f.i + 1, !.pc = "left"]]))

quick_sort_sublist_left ==
    /\ Running("quick_sort_sublist", "left")
    /\ LET f == Top IN
       Step(Ok(v, Call([f EXCEPT !.pc = "right"],
                       sublist_frame("quick_sort_sublist", f.start, f.middle - 1))))

quick_sort_sublist_right ==
    /\ Running("quick_sort_sublist", "right")
    /\ LET f == Top IN
       Step(Ok(v, Call([f EXCEPT !.pc = "exit"],
                       sublist_frame("quick_sort_sublist", f.middle + 1, f.end))))

(***************************************************************************)
(* shell_sort (460-472).                                                   *)
(***************************************************************************)
shell_sort_gap ==
    /\ Running("shell_sort", "gap")
    /\ LET f == Top IN
       Step(IF f.gap > 0
              THEN Ok(v, ReplaceTop([f EXCEPT !.i = f.gap, !.pc = "outer"]))
              ELSE Ok(v, Pop))

shell_sort_outer ==
    /\ Running("shell_sort", "outer")
    /\ LET f == Top IN
       Step(IF f.i < Len(v)
              THEN Ok(v, ReplaceTop([f EXCEPT !.j = f.i, !.pc = "inner"]))
              ELSE Ok(v, ReplaceTop([f EXCEPT !.gap = f.gap \div 2, !.pc = "gap"])))

shell_sort_inner ==
    /\ Running("shell_sort", "inner")
    /\ LET f == Top
           next == ReplaceTop([f EXCEPT !.i = f.i + 1, !.pc = "outer"])
       IN Step(IF f.j >= f.gap
                 THEN IF ~(InBounds(v, f.j - f.gap) /\ InBounds(v, f.j)) THEN Fault
                      ELSE IF At(v, f.j - f.gap) > At(v, f.j)
                             THEN Ok(swap(v, f.j, f.j - f.gap),
                                     ReplaceTop([f EXCEPT !.j = f.j - f.gap]))
                             ELSE Ok(v, next)
                 ELSE Ok(v, next))

SortStep ==
    \/ insertion_sort_outer \/ insertion_sort_inner
    \/ selection_sort_outer \/ selection_sort_scan
    \/ bubble_sort_while \/ bubble_sort_for
    \/ heap_sort_build \/ heap_sort_extract \/ max_heapify
    \/ merge_sort \/ merge_sort_sublist \/ merge_sort_sublist_right
    \/ merge_sort_sublist_merge
    \/ merge_sublists_merge \/ merge_sublists_left \/ merge_sublists_right
    \/ quick_sort \/ quick_sort_sublist \/ partition_sublist
    \/ quick_sort_sublist_left \/ quick_sort_sublist_right
    \/ shell_sort_gap \/ shell_sort_outer \/ shell_sort_inner
    \/ return_from_call

(***************************************************************************)
(* Characters and the two stream extractions read_in_datasets uses.  A     *)
(* text is a sequence of one-character strings.                            *)
(***************************************************************************)
Digits == <<"0", "1", "2", "3", "4", "5", "6", "7", "8", "9">>

isdigit(c) == \E k \in 1..10 : Digits[k] = c

DigitValue(c) == (CHOOSE k \in 1..10 : Digits[k] = c) - 1

\* The six white-space characters of the "C" locale: space, horizontal tab,
\* newline, vertical tab (written as the character itself), form feed and
\* carriage return.
isspace(c) == c \in {" ", "\t", "\n", "", "\f", "\r"}

INT_MAX == 2147483647

\* The index of the first character at or after position p (a count of
\* characters already passed) that satisfies / does not satisfy a test;
\* Len(s) when there is none.
RECURSIVE SkipSpaces(_, _)
SkipSpaces(s, p) ==
    IF p < Len(s) /\ isspace(s[p + 1]) THEN SkipSpaces(s, p + 1) ELSE p

RECURSIVE SkipDigits(_, _)
SkipDigits(s, p) ==
    IF p < Len(s) /\ isdigit(s[p + 1]) THEN SkipDigits(s, p + 1) ELSE p

RECURSIVE SkipWord(_, _)
SkipWord(s, p) ==
    IF p < Len(s) /\ ~isspace(s[p + 1]) THEN SkipWord(s, p + 1) ELSE p

\* The digits s[from+1 .. to] accumulated into an int as num_get does: the
\* value is kept negated so that INT_MIN is representable, and overflow is
\* detected before the multiplication that would cause it.
RECURSIVE Accumulate(_, _, _, _, _)
Accumulate(s, from, to, lowest, acc) ==
    IF from >= to THEN [overflow |-> FALSE, negated |-> acc]
    ELSE LET d == DigitValue(s[from + 1])
         IN  IF acc < (lowest + d + 9) \div 10
               THEN [overflow |-> TRUE, negated |-> lowest]
               ELSE Accumulate(s, from + 1, to, lowest, acc * 10 - d)

\* ss >> elem on a stream at position p whose eofbit is eof (line 189).
\* An extraction on a stream that is not good fails at once.  Otherwise
\* leading white space is skipped, an optional sign and then every digit is
\* consumed; the extraction fails when there is no digit or the value does
\* not fit an int, and eofbit is set when the end of the line was reached.
ExtractInt(s, p, eof) ==
    IF eof THEN [ok |-> FALSE, value |-> 0, pos |-> p, eof |-> TRUE]
    ELSE LET q == SkipSpaces(s, p) IN
         IF q = Len(s) THEN [ok |-> FALSE, value |-> 0, pos |-> q, eof |-> TRUE]
         ELSE LET signed   == s[q + 1] \in {"-", "+"}
                  negative == s[q + 1] = "-"
                  first    == IF signed THEN q + 1 ELSE q
                  last     == SkipDigits(s, first)
                  lowest   == IF negative THEN (-INT_MAX) - 1 ELSE -INT_MAX
                  n        == Accumulate(s, first, last, lowest, 0)
              IN  [ok    |-> last > first /\ ~n.overflow,
                   value |-> IF last = first THEN 0
                             ELSE IF n.overflow
                                    THEN (IF negative THEN (-INT_MAX) - 1 ELSE INT_MAX)
                             ELSE IF negative THEN n.negated ELSE -n.negated,
                   pos   |-> last,
                   eof   |-> last = Len(s)]

\* ss.clear(); ss >> temp (lines 196-198): white space is skipped and the
\* characters up to the next white space are consumed.
ExtractWord(s, p) ==
    LET q    == SkipSpaces(s, p)
        last == SkipWord(s, q)
    IN  [pos |-> last, eof |-> last = Len(s)]

Diagnostic(line, position) ==
    [kind |-> "convert", line |-> line, position |-> position]

UsageLine(kind) == [kind |-> kind, line |-> 0, position |-> 0]

\* The token loop of lines 187-204 on the line s, from stream position p.
RECURSIVE TokenLoop(_, _, _, _, _, _, _)
TokenLoop(s, p, eof, line, position, dataset, diags) ==
    LET r == ExtractInt(s, p, eof) IN
    IF r.ok
      THEN TokenLoop(s, r.pos, r.eof, line, position + 1,
                     Append(dataset, r.value), diags)
      ELSE IF r.eof THEN [dataset |-> dataset, diags |-> diags]
      ELSE LET t == ExtractWord(s, r.pos)
           IN  TokenLoop(s, t.pos, t.eof, line, position + 1, dataset,
                         Append(diags, Diagnostic(line, position)))

ParseLine(s, line) == TokenLoop(s, 0, FALSE, line, 1, <<>>, <<>>)

\* std::getline(std::cin, data_str) on a stream that is good: the characters
\* up to the next newline, which is consumed and not stored; eofbit is set
\* when the end of the text is reached before a newline.
RECURSIVE SkipLine(_, _)
SkipLine(s, p) ==
    IF p < Len(s) /\ s[p + 1] # "\n" THEN SkipLine(s, p + 1) ELSE p

getline(s, p) ==
    LET last == SkipLine(s, p)
    IN  [str |-> SubSeq(s, p + 1, last),
         pos |-> IF last < Len(s) THEN last + 1 ELSE last,
         eof |-> last = Len(s)]

(***************************************************************************)
(* read_in_datasets (170-214).                                             *)
(***************************************************************************)
\* Lines 179-181.
read_in_datasets_first_line ==
    /\ pc = "read"
    /\ LET g == getline(stdin, cin_pos) IN
        /\ data_str' = g.str
        /\ cin_pos' = g.pos
        /\ cin_eof' = g.eof
    /\ linecount' = 1
    /\ errors_occured' = FALSE
    /\ pc' = "read_loop"
    /\ UNCHANGED <<stdin, datasets, mainVars, sortVars>>

\* One pass of the loop of lines 183-210.
read_in_datasets_line ==
    /\ pc = "read_loop"
    /\ ~cin_eof /\ data_str # <<>>
    /\ LET r == ParseLine(data_str, linecount)
           g == getline(stdin, cin_pos)
       IN /\ datasets' = Append(datasets, r.dataset)
          /\ err' = err \o r.diags
          /\ errors_occured' = (errors_occured \/ r.diags # <<>>)
          /\ data_str' = g.str
          /\ cin_pos' = g.pos
          /\ cin_eof' = g.eof
    /\ linecount' = linecount + 1
    /\ pc' = "read_loop"
    /\ UNCHANGED <<stdin, argv, status, out, total_times, result_times, i, iter,
                   clock, durations, sortVars>>

\* The loop condition of line 183 fails; lines 212-213, and the return to main.
read_in_datasets_return ==
    /\ pc = "read_loop"
    /\ cin_eof \/ data_str = <<>>
    /\ err' = IF errors_occured THEN Append(err, UsageLine("blank")) ELSE err
    /\ pc' = "reserve"
    /\ UNCHANGED <<datasets, readerVars, argv, status, out, total_times,
                   result_times, i, iter, clock, durations, sortVars>>

ReadStep ==
    \/ read_in_datasets_first_line
    \/ read_in_datasets_line
    \/ read_in_datasets_return

(***************************************************************************)
(* main (28-162).                                                          *)
(***************************************************************************)
argc == Len(argv)

\* strcmp: zero exactly when the two strings are equal.
strcmp(a, b) == IF a = b THEN 0 ELSE 1

\* Lines 30-41: the value main returns at once, or 0 when the arguments pass.
usage_error_same_status(av) ==
    IF Len(av) < 1 \/ Len(av) > 2 THEN -1
    ELSE IF Len(av) = 2 /\ strcmp(av[2], "results") # 0 /\ strcmp(av[2], "summary") # 0
           THEN -1
    ELSE 0

usage_error(av) ==
    IF Len(av) < 1 \/ Len(av) > 2 THEN -1
    ELSE IF Len(av) = 2 /\ strcmp(av[2], "results") # 0 /\ strcmp(av[2], "summary") # 0
           THEN -2
    ELSE 0

\* The exit status the parent sees: the low 8 bits of main's return value.
ExitStatus(ret) == ret % 256

\* Lines 61-62.
summary_needed == argc = 1 \/ (argc = 2 /\ strcmp(argv[2], "summary") = 0)
results_needed == argc = 1 \/ (argc = 2 /\ strcmp(argv[2], "results") = 0)

num_datasets == Len(datasets)

EmptyMap == [name \in {} |-> 0]

OutLine(kind, ds, rank, algo, time) ==
    [kind |-> kind, ds |-> ds, rank |-> rank, algo |-> algo, time |-> time]

\* Lines 30-55.
main_check_arguments ==
    /\ pc = "start"
    /\ LET r == usage_error(argv) IN
       IF r # 0
         THEN /\ err' = Append(err, UsageLine(IF r = -1 THEN "usage" ELSE "invalid"))
              /\ status' = r
              /\ pc' = "exited"
         ELSE /\ pc' = "read"
              /\ UNCHANGED <<err, status>>
    /\ UNCHANGED <<datasets, readerVars, sortVars, argv, out, total_times,
                   result_times, i, iter, clock, durations>>

\* Lines 58-69 and the start of the loop of line 75: with results requested,
\* operator[] inserts an empty list of runtimes for every algorithm.
main_reserve ==
    /\ pc = "reserve"
    /\ result_times' = IF results_needed THEN [name \in AlgoNames |-> <<>>]
                       ELSE result_times
    /\ i' = 0
    /\ pc' = "loop"
    /\ UNCHANGED <<datasets, readerVars, sortVars, argv, status, out, err,
                   total_times, iter, clock, durations>>

\* Lines 75-76, and line 101 once the loop is over.
main_next_dataset ==
    /\ pc = "loop"
    /\ IF i < num_datasets
         THEN /\ out' = Append(out, OutLine("progress", i + 1, 0, "", 0))
              /\ iter' = 0
              /\ pc' = "algo"
         ELSE /\ out' = Append(out, OutLine("blank", 0, 0, "", 0))
              /\ pc' = "summary"
              /\ UNCHANGED iter
    /\ UNCHANGED <<datasets, readerVars, sortVars, argv, status, err, total_times,
                   result_times, i, clock, durations>>

\* Lines 78-83: the iterator names the next algorithm, the clock is read and
\* the sort function is called; its parameter v is initialised with a copy of
\* datasets[i].  At the end of the inner loop, ++i.
main_call_algorithm ==
    /\ pc = "algo"
    /\ IF iter < num_algos
         THEN /\ v' = datasets[i + 1]
              /\ stack' = <<Entry(sort_algos(sort_order[iter + 1]), datasets[i + 1])>>
              /\ pc' = "sorting"
              /\ UNCHANGED i
         ELSE /\ i' = i + 1
              /\ pc' = "loop"
              /\ UNCHANGED <<v, stack>>
    /\ UNCHANGED <<datasets, readerVars, oob, argv, status, out, err, total_times,
                   result_times, iter, clock, durations>>

\* Lines 89-94.
add_total_overwrites(tt, algo, duration) ==
    [name \in DOMAIN tt \cup {algo} |-> IF name = algo THEN duration ELSE tt[name]]

add_total(tt, algo, duration) ==
    IF algo \notin DOMAIN tt
      THEN [name \in DOMAIN tt \cup {algo} |-> IF name = algo THEN duration ELSE tt[name]]
      ELSE [tt EXCEPT ![algo] = @ + duration]

\* Lines 96-97.
push_back_result(rt, algo, duration) ==
    [name \in DOMAIN rt \cup {algo} |->
        IF name = algo
          THEN Append(IF algo \in DOMAIN rt THEN rt[algo] ELSE <<>>, duration)
          ELSE rt[name]]

\* The sort functions take their vector by value (sortcomparer.h 51-57): what
\* the callee did to its copy vec never reaches the caller's datasets[k].
passed_by_reference(ds, k, vec) == [ds EXCEPT ![k + 1] = vec]

passed_by_value(ds, k, vec) == ds

\* Lines 82-98: the sort function has returned and its copy is destroyed.
\* The clock is the environment's: between the reading of line 82 and that
\* of line 84 it has advanced by any whole number of microseconds, zero
\* included, and the difference is the duration that is recorded.  The clock
\* is taken not to be set back during the run, and to advance by at most
\* MaxClock microseconds over the whole run.
main_record_duration ==
    /\ pc = "sorting"
    /\ stack = <<>>
    /\ \E end_time \in clock..MaxClock :
       LET algo       == sort_order[iter + 1]
           start_time == clock
           duration   == end_time - start_time
       IN /\ clock' = end_time
          /\ durations' = Append(durations, [dataset |-> i, algo |-> algo,
                                            duration |-> duration])
          /\ datasets' = passed_by_value(datasets, i, v)
          /\ total_times' = IF summary_needed
                              THEN add_total(total_times, algo, duration)
                              ELSE total_times
          /\ result_times' = IF results_needed
                               THEN push_back_result(result_times, algo, duration)
                               ELSE result_times
    /\ v' = <<>>
    /\ iter' = iter + 1
    /\ pc' = "algo"
    /\ UNCHANGED <<readerVars, stack, oob, argv, status, out, err, i>>

\* compare_times (220-223).
compare_times_reversed(pair1, pair2) == pair1[2] > pair2[2]

compare_times(pair1, pair2) == pair1[2] < pair2[2]

\* std::sort on fewer than 16 elements is an insertion sort: each element is
\* moved left past the elements it compares less than.
RECURSIVE insert_sorted(_, _)
insert_sorted(sorted, x) ==
    IF sorted # <<>> /\ compare_times(x, sorted[Len(sorted)])
      THEN Append(insert_sorted(SubSeq(sorted, 1, Len(sorted) - 1), x),
                  sorted[Len(sorted)])
      ELSE Append(sorted, x)

RECURSIVE std_sort_from(_, _)
std_sort_from(sorted, rest) ==
    IF rest = <<>> THEN sorted
    ELSE std_sort_from(insert_sorted(sorted, Head(rest)), Tail(rest))

std_sort(pairs) == std_sort_from(<<>>, pairs)

\* The names a map holds, in the map's iteration order.
Keys(map, order) == SelectSeq(order, LAMBDA name : name \in DOMAIN map)

\* Lines 107-113.
summary_fast_to_slow ==
    std_sort([k \in 1..Len(Keys(total_times, total_order)) |->
                 <<Keys(total_times, total_order)[k],
                   total_times[Keys(total_times, total_order)[k]]>>])

\* Lines 141-146, for dataset k (0-based).
results_fast_to_slow(k) ==
    std_sort([n \in 1..Len(Keys(result_times, result_order)) |->
                 <<Keys(result_times, result_order)[n],
                   result_times[Keys(result_times, result_order)[n]][k + 1]>>])

\* Lines 106-129.  The loop of line 118 reads fast_to_slow[0 .. num_algos-1];
\* when the list is shorter the read is outside its bounds, which is
\* undefined: the process may die, or go on printing indeterminate rows.
\* A row is modelled by its rank, name and total time.
main_summary ==
    /\ pc = "summary"
    /\ IF ~summary_needed
         THEN /\ pc' = "results"
              /\ UNCHANGED <<out, oob>>
         ELSE LET fast_to_slow == summary_fast_to_slow
                  banner == Append(out, OutLine("banner", 0, 0, "SUMMARY", 0))
              IN  IF Len(fast_to_slow) >= num_algos
                    THEN /\ out' = banner \o
                                   [k \in 1..num_algos |->
                                       OutLine("row", 0, k, fast_to_slow[k][1],
                                               fast_to_slow[k][2])] \o
                                   <<OutLine("blank", 0, 0, "", 0)>>
                         /\ pc' = "results"
                         /\ UNCHANGED oob
                    ELSE /\ oob' = TRUE
                         /\ \/ /\ pc' = "crashed"
                               /\ out' = banner
                            \/ /\ pc' = "results"
                               /\ out' = banner \o
                                         [k \in 1..num_algos |->
                                             IF k <= Len(fast_to_slow)
                                               THEN OutLine("row", 0, k, fast_to_slow[k][1],
                                                            fast_to_slow[k][2])
                                               ELSE OutLine("indeterminate", 0, k, "", 0)] \o
                                         <<OutLine("blank", 0, 0, "", 0)>>
    /\ UNCHANGED <<datasets, readerVars, v, stack, argv, status, err, total_times,
                   result_times, i, iter, clock, durations>>

\* Lines 131-135, and line 161 when no results were requested.
main_results ==
    /\ pc = "results"
    /\ IF results_needed
         THEN /\ out' = Append(out, OutLine("banner", 0, 0, "RESULTS", 0))
              /\ i' = 0
              /\ pc' = "block"
              /\ UNCHANGED status
         ELSE /\ status' = 0
              /\ pc' = "exited"
              /\ UNCHANGED <<out, i>>
    /\ UNCHANGED <<datasets, readerVars, sortVars, argv, err, total_times,
                   result_times, iter, clock, durations>>

\* One pass of the loop of lines 140-158, and line 161 once it is over.
main_results_dataset ==
    /\ pc = "block"
    /\ IF i < num_datasets
         THEN LET fast_to_slow == results_fast_to_slow(i)
              IN  /\ out' = out \o
                            <<OutLine("dataset", i + 1, 0, "", 0)>> \o
                            [k \in 1..num_algos |->
                                OutLine("result", i + 1, k, fast_to_slow[k][1],
                                        fast_to_slow[k][2])] \o
                            <<OutLine("blank", 0, 0, "", 0)>>
                  /\ i' = i + 1
                  /\ pc' = "block"
                  /\ UNCHANGED status
         ELSE /\ status' = 0
              /\ pc' = "exited"
              /\ UNCHANGED <<out, i>>
    /\ UNCHANGED <<datasets, readerVars, sortVars, argv, err, total_times,
                   result_times, iter, clock, durations>>

MainStep ==
    \/ main_check_arguments
    \/ main_reserve
    \/ main_next_dataset
    \/ main_call_algorithm
    \/ main_record_duration
    \/ main_summary
    \/ main_results
    \/ main_results_dataset

(***************************************************************************)
(* The whole program.  The command lines cover no argument, each           *)
(* recognised argument, unrecognised arguments (one differing from a       *)
(* recognised one by case only) and too many arguments.  The input texts   *)
(* give no dataset, an empty and a one-element dataset, datasets in and    *)
(* out of order and with duplicates, a malformed token, an empty line      *)
(* before further lines, and a last line without its newline.              *)
(***************************************************************************)
CommandLines ==
    { <<"./sortcomparer">>,
      <<"./sortcomparer", "summary">>,
      <<"./sortcomparer", "results">>,
      <<"./sortcomparer", "Summary">>,
      <<"./sortcomparer", "both">>,
      <<"./sortcomparer", "results", "summary">> }

InputTexts ==
    { <<>>,
      <<"\n", "5", "\n">>,
      <<"2", " ", "0", " ", "1">>,
      <<"2", " ", "0", " ", "x", " ", "1", "\n">>,
      <<"x", "\n", "7", "\f", "\n">>,
      <<"4", " ", "-", "3", " ", "2", " ", "-", "3", " ", "0", "\n">>,
      <<"2", " ", "1", " ", "0", " ", "1", "\n", "0", " ", "1", " ", "1", "\n", "\n", "4", "\n">> }

Init ==
    /\ argv \in CommandLines
    /\ pc = "start"
    /\ status = 0
    /\ out = <<>>
    /\ err = <<>>
    /\ stdin \in InputTexts
    /\ cin_pos = 0
    /\ cin_eof = FALSE
    /\ data_str = <<>>
    /\ linecount = 0
    /\ errors_occured = FALSE
    /\ datasets = <<>>
    /\ total_times = EmptyMap
    /\ result_times = EmptyMap
    /\ i = 0
    /\ iter = 0
    /\ clock = 0
    /\ durations = <<>>
    /\ v = <<>>
    /\ stack = <<>>
    /\ oob = FALSE

Next == MainStep \/ ReadStep \/ SortStep

Spec == Init /\ [][Next]_vars

(***************************************************************************)
(* The reader on its own: read_in_datasets is called on a text made of at  *)
(* most MaxLines lines of at most MaxTokens tokens each, separated by one  *)
(* space; the last line may lack its newline.  The empty token makes       *)
(* leading, trailing and lone white space, and the empty line; two tokens  *)
(* hold a form feed and a vertical tab.                                    *)
(***************************************************************************)
Tokens ==
    { <<>>,
      <<"7">>,
      <<"-", "3">>,
      <<"x">>,
      <<"-">>,
      <<"\f">>,
      <<"7", "", "-", "3">>,
      <<"1", "2", "a", "b", "c">>,
      <<"2", "1", "4", "7", "4", "8", "3", "6", "4", "7">>,
      <<"2", "1", "4", "7", "4", "8", "3", "6", "4", "8">> }

RECURSIVE Join(_, _)
Join(parts, sep) ==
    IF Len(parts) = 0 THEN <<>>
    ELSE IF Len(parts) = 1 THEN parts[1]
    ELSE parts[1] \o sep \o Join(Tail(parts), sep)

LinesOf == {Join(ts, <<" ">>) : ts \in UNION {[1..n -> Tokens] : n \in 1..MaxTokens}}

ReaderTexts ==
    {<<>>} \cup
    UNION { { Join(ls, <<"\n">>) \o end : ls \in [1..n -> LinesOf] }
            : n \in 1..MaxLines, end \in {<<>>, <<"\n">>} }

InitReader ==
    /\ argv = <<"./sortcomparer">>
    /\ pc = "read"
    /\ status = 0
    /\ out = <<>>
    /\ err = <<>>
    /\ stdin \in ReaderTexts
    /\ cin_pos = 0
    /\ cin_eof = FALSE
    /\ data_str = <<>>
    /\ linecount = 0
    /\ errors_occured = FALSE
    /\ datasets = <<>>
    /\ total_times = EmptyMap
    /\ result_times = EmptyMap
    /\ i = 0
    /\ iter = 0
    /\ clock = 0
    /\ durations = <<>>
    /\ v = <<>>
    /\ stack = <<>>
    /\ oob = FALSE

SpecReader == InitReader /\ [][ReadStep]_vars

ReaderReturned == pc = "reserve"

(***************************************************************************)
(* The sort functions on their own: one function is called on one vector   *)
(* drawn from the vectors of length at most MaxLen over -1 .. MaxVal.      *)
(* The state is that of main inside the benchmark loop, at line 83, with   *)
(* the vector as the only dataset.                                         *)
(***************************************************************************)
Vals == (-1)..MaxVal

Vectors == UNION {[1..n -> Vals] : n \in 0..MaxLen}

TheAlgo == sort_order[iter + 1]

InitSort ==
    /\ argv = <<"./sortcomparer">>
    /\ pc = "sorting"
    /\ status = 0
    /\ out = <<>>
    /\ err = <<>>
    /\ stdin = <<>>
    /\ cin_pos = 0
    /\ cin_eof = TRUE
    /\ data_str = <<>>
    /\ linecount = 1
    /\ errors_occured = FALSE
    /\ \E S \in Vectors : datasets = <<S>> /\ v = S
    /\ total_times = EmptyMap
    /\ result_times = EmptyMap
    /\ i = 0
    /\ iter \in 0..(num_algos - 1)
    /\ clock = 0
    /\ durations = <<>>
    /\ stack = <<Entry(sort_algos(sort_order[iter + 1]), v)>>
    /\ oob = FALSE

SpecSort == InitSort /\ [][SortStep]_vars

\* The running function is always scheduled: the program is single-threaded
\* and nothing else can run.
SpecSortFair == SpecSort /\ WF_vars(SortStep)

Returned == pc = "sorting" /\ stack = <<>>

(***************************************************************************)
(* Properties of the sort functions.                                       *)
(***************************************************************************)
Occurrences(s, x) == Cardinality({k \in DOMAIN s : s[k] = x})

Elements(s) == {s[k] : k \in DOMAIN s}

IsPermutation(s, t) ==
    /\ Len(s) = Len(t)
    /\ \A x \in Elements(s) \cup Elements(t) : Occurrences(s, x) = Occurrences(t, x)

NonDecreasing(s) == \A k \in 1..(Len(s) - 1) : s[k] <= s[k + 1]

\* C1: when any of the seven sort functions returns, its working copy v is a
\* permutation of the sequence S it was called on and is in non-decreasing
\* order, whatever S is (empty, one element, duplicates included).
C1_SortedPermutation ==
    Returned => (IsPermutation(v, datasets[i + 1]) /\ NonDecreasing(v))

\* Heap Sort has returned from an input with duplicates that was not in order.
C1_Witness ==
    /\ Returned
    /\ TheAlgo = "Heap Sort"
    /\ Len(datasets[1]) = 4
    /\ ~NonDecreasing(datasets[1])
    /\ \E a, b \in DOMAIN datasets[1] : a # b /\ datasets[1][a] = datasets[1][b]

\* C10: every sort function terminates on every finite input (each loop and
\* each recursion reaches its exit, so the function returns) and never indexes
\* outside the vector being sorted.
C10_TerminatesInBounds == [](~oob) /\ <>Returned

\* Quick Sort has returned from a strictly decreasing input of three elements.
C10_Witness ==
    /\ Returned
    /\ ~oob
    /\ TheAlgo = "Quick Sort"
    /\ Len(datasets[1]) = 3
    /\ \A k \in 1..2 : datasets[1][k] > datasets[1][k + 1]

(***************************************************************************)
(* Properties of the reader.  What a text should yield is computed here    *)
(* from the text alone: its lines, their white-space separated words, and  *)
(* which words are signed decimal integers that fit an int.                *)
(***************************************************************************)
\* The lines of s from position p up to the first empty line or the end of
\* the text; a last line need not end in a newline.
RECURSIVE LinesBeforeEmpty(_, _)
LinesBeforeEmpty(s, p) ==
    IF p >= Len(s) THEN <<>>
    ELSE LET last == SkipLine(s, p) IN
         IF last = p THEN <<>>
         ELSE <<SubSeq(s, p + 1, last)>> \o
              LinesBeforeEmpty(s, IF last < Len(s) THEN last + 1 ELSE last)

\* How much of s is consumed by reading up to and including the first empty
\* line, or up to the end of the text.
RECURSIVE EndOfInput(_, _)
EndOfInput(s, p) ==
    IF p >= Len(s) THEN Len(s)
    ELSE LET last == SkipLine(s, p) IN
         IF last = p THEN p + 1
         ELSE EndOfInput(s, IF last < Len(s) THEN last + 1 ELSE last)

RECURSIVE Words(_, _)
Words(s, p) ==
    LET q == SkipSpaces(s, p) IN
    IF q = Len(s) THEN <<>>
    ELSE <<SubSeq(s, q + 1, SkipWord(s, q))>> \o Words(s, SkipWord(s, q))

SignLength(w) == IF w[1] \in {"-", "+"} THEN 1 ELSE 0

WordValue(w) ==
    Accumulate(w, SignLength(w), Len(w),
               IF w[1] = "-" THEN (-INT_MAX) - 1 ELSE -INT_MAX, 0)

IsInteger(w) ==
    /\ Len(w) > SignLength(w)
    /\ \A k \in (SignLength(w) + 1)..Len(w) : isdigit(w[k])
    /\ ~WordValue(w).overflow

IntegerOf(w) == IF w[1] = "-" THEN WordValue(w).negated ELSE -WordValue(w).negated

ValidIntegers(line) ==
    LET ws   == Words(line, 0)
        good == SelectSeq(ws, IsInteger)
    IN  [k \in 1..Len(good) |-> IntegerOf(good[k])]

RECURSIVE MalformedFrom(_, _, _)
MalformedFrom(ws, line, k) ==
    IF k > Len(ws) THEN <<>>
    ELSE (IF IsInteger(ws[k]) THEN <<>> ELSE <<Diagnostic(line, k)>>) \o
         MalformedFrom(ws, line, k + 1)

RECURSIVE ExpectedDiagnostics(_, _)
ExpectedDiagnostics(lines, n) ==
    IF n = 0 THEN <<>>
    ELSE ExpectedDiagnostics(lines, n - 1) \o
         MalformedFrom(Words(lines[n], 0), n, 1)

ConvertDiagnostics == SelectSeq(err, LAMBDA d : d.kind = "convert")

\* C2: read_in_datasets returns exactly one Dataset per line that precedes the
\* first empty line (or the end of the stream), whether or not the last such
\* line ends in a newline, and consumes nothing after the first empty line.
C2_OneDatasetPerLine ==
    ReaderReturned =>
        /\ Len(datasets) = Len(LinesBeforeEmpty(stdin, 0))
        /\ cin_pos = EndOfInput(stdin, 0)

\* C3: the Dataset of a line is exactly the sequence of the line's words that
\* are signed integers, in order; a malformed word contributes nothing and
\* never makes a following valid word disappear.
C3_DatasetIsValidTokens ==
    ReaderReturned =>
        \A k \in 1..Len(datasets) :
            datasets[k] = ValidIntegers(LinesBeforeEmpty(stdin, 0)[k])

\* C4: exactly one diagnostic per malformed word and none for a valid word,
\* each naming the 1-based line and the 1-based position of the word among the
\* words of its line.
C4_OneDiagnosticPerMalformedToken ==
    ReaderReturned =>
        ConvertDiagnostics =
            ExpectedDiagnostics(LinesBeforeEmpty(stdin, 0), Len(datasets))

(***************************************************************************)
(* Properties of the whole program.                                        *)
(***************************************************************************)
TooManyArguments == argc > 2

UnrecognisedArgument == argc = 2 /\ argv[2] \notin {"results", "summary"}

ArgumentsChecked == pc # "start"

ReaderDone == pc \notin {"start", "read", "read_loop"}

\* C5: with zero datasets a run in any mode reads no element outside the
\* summary ranking list or a duration sequence, does not crash, exits with
\* status 0 and renders no dataset block.
C5_ZeroDatasetsNoCrash ==
    (ReaderDone /\ ~TooManyArguments /\ ~UnrecognisedArgument /\ num_datasets = 0) =>
        /\ ~oob
        /\ pc # "crashed"
        /\ pc = "exited" => status = 0
        /\ \A k \in DOMAIN out : out[k].kind \notin {"dataset", "result"}

\* The number of durations recorded so far for an algorithm: one per dataset
\* fully processed, and one more once the algorithm has run on the current
\* dataset.
Recorded(name) ==
    IF ~ReaderDone \/ pc = "reserve" THEN 0
    ELSE IF pc = "loop" THEN i
    ELSE IF pc \in {"algo", "sorting"}
           THEN i + (IF \E k \in 1..iter : sort_order[k] = name THEN 1 ELSE 0)
    ELSE num_datasets

\* The measurements taken so far for an algorithm, oldest first, and the sum
\* of their durations.
Measured(name) == SelectSeq(durations, LAMBDA m : m.algo = name)

RECURSIVE SumDurations(_)
SumDurations(ms) ==
    IF ms = <<>> THEN 0 ELSE ms[1].duration + SumDurations(Tail(ms))

\* C6: throughout the benchmark loop every duration sequence of result_times
\* has one entry per dataset processed (exactly i entries for every name at
\* the head of the loop), entry d being the duration measured on dataset d;
\* every total of total_times is the sum of the durations recorded for its
\* name; total_times stays empty unless the summary is requested and
\* result_times unless the results are.
C6_TimesInvariant ==
    /\ \A name \in AlgoNames :
          /\ Len(Measured(name)) = Recorded(name)
          /\ \A d \in 1..Len(Measured(name)) : Measured(name)[d].dataset = d - 1
    /\ \A name \in DOMAIN result_times :
          /\ Len(result_times[name]) = Recorded(name)
          /\ \A d \in 1..Len(result_times[name]) :
                result_times[name][d] = Measured(name)[d].duration
    /\ \A name \in DOMAIN total_times :
          total_times[name] = SumDurations(Measured(name))
    /\ pc = "loop" => \A name \in DOMAIN result_times : Len(result_times[name]) = i
    /\ ~summary_needed => DOMAIN total_times = {}
    /\ ~results_needed => DOMAIN result_times = {}

\* Both reports were requested, two datasets are processed and some total is
\* the sum of two non-zero durations.
C6_Witness ==
    /\ pc = "loop"
    /\ i = 2
    /\ DOMAIN result_times = AlgoNames
    /\ \E name \in DOMAIN total_times :
          /\ result_times[name][1] > 0
          /\ result_times[name][2] > 0
          /\ total_times[name] = result_times[name][1] + result_times[name][2]

SummaryRows == SelectSeq(out, LAMBDA l : l.kind = "row")

ResultRows(d) == SelectSeq(out, LAMBDA l : l.kind = "result" /\ l.ds = d)

\* rows is a ranking of all algorithms by the durations `recorded`.
IsRanking(rows, recorded) ==
    /\ Len(rows) = num_algos
    /\ \A name \in AlgoNames : Cardinality({k \in 1..Len(rows) : rows[k].algo = name}) = 1
    /\ \A k \in 1..Len(rows) :
          /\ rows[k].rank = k
          /\ rows[k].time = recorded[rows[k].algo]
    /\ \A k, l \in 1..Len(rows) : k < l => rows[k].time <= rows[l].time

SummaryRendered == pc \in {"results", "block", "exited"} /\ summary_needed

BlockRendered(d) ==
    /\ results_needed
    /\ \/ pc = "block" /\ d <= i
       \/ pc = "exited" /\ status = 0 /\ d <= num_datasets

\* C7: with at least one dataset, the summary ranking and the ranking of each
\* DATASET block list every algorithm exactly once, in order of increasing
\* duration, each row with the duration recorded for its algorithm.
C7_RankingsOrdered ==
    num_datasets >= 1 =>
        /\ SummaryRendered => IsRanking(SummaryRows, total_times)
        /\ \A d \in 1..num_datasets :
              BlockRendered(d) =>
                  IsRanking(ResultRows(d), [name \in AlgoNames |-> result_times[name][d]])

\* A run with both reports and two datasets has finished; the summary lists
\* different totals and total_times did not iterate in increasing order.
C7_Witness ==
    /\ pc = "exited"
    /\ status = 0
    /\ num_datasets = 2
    /\ summary_needed /\ results_needed
    /\ Len(SummaryRows) = num_algos
    /\ SummaryRows[1].time < SummaryRows[num_algos].time
    /\ total_times[total_order[1]] > total_times[total_order[2]]
    /\ Len(ResultRows(2)) = num_algos
    /\ ResultRows(2)[1].time < ResultRows(2)[num_algos].time

\* C8: too many arguments and one unrecognised argument each end the run at
\* once with one line on the diagnostic stream and a non-zero exit status,
\* the two statuses differ, and nothing is read, run or printed; no argument
\* or one recognised argument is never treated as a usage error.
C8_UsageErrors ==
    ArgumentsChecked =>
        /\ (TooManyArguments \/ UnrecognisedArgument) =>
              /\ pc = "exited"
              /\ ExitStatus(status) # 0
              /\ Len(err) = 1
              /\ err[1].kind = (IF TooManyArguments THEN "usage" ELSE "invalid")
              /\ out = <<>>
              /\ cin_pos = 0
              /\ datasets = <<>>
              /\ stack = <<>>
              /\ DOMAIN total_times = {} /\ DOMAIN result_times = {}
        /\ TooManyArguments =>
              \A av \in CommandLines :
                  (Len(av) = 2 /\ av[2] \notin {"results", "summary"}) =>
                      ExitStatus(status) # ExitStatus(usage_error(av))
        /\ UnrecognisedArgument =>
              \A av \in CommandLines :
                  Len(av) > 2 => ExitStatus(status) # ExitStatus(usage_error(av))
        /\ (~TooManyArguments /\ ~UnrecognisedArgument) =>
              /\ \A k \in DOMAIN err : err[k].kind \notin {"usage", "invalid"}
              /\ pc = "exited" => status = 0

\* The run given "Summary", which differs from a recognised argument by case
\* only, has exited.
C8_Witness ==
    /\ pc = "exited"
    /\ argc = 2
    /\ argv[2] = "Summary"
    /\ ExitStatus(status) # 0

\* C9: once the reader has returned, no step of the run (no sort function in
\* particular) changes the dataset list, and each sort function starts on a
\* copy of the dataset as the reader produced it.
C9_DatasetsUnchanged ==
    [][ReaderDone =>
          /\ datasets' = datasets
          /\ (pc = "algo" /\ pc' = "sorting") => v' = datasets[i + 1]]_vars

\* An algorithm has sorted its copy of a dataset that is not in order, and
\* the next algorithm is about to run on that dataset.
C9_Witness ==
    /\ pc = "algo"
    /\ iter >= 1
    /\ iter < num_algos
    /\ Len(datasets[i + 1]) >= 3
    /\ ~NonDecreasing(datasets[i + 1])

====
